---- MODULE Spec2Model ----
(***************************************************************************)
(* Model of the two components of the clinic front-desk dashboard:         *)
(*   - QueueWidget   (src/src/components/QueueWidget.tsx)                   *)
(*   - PatientLookup (src/src/components/PatientLookup.tsx)                 *)
(* QueueWidget is a render function of its props and of the useQueue hook  *)
(* state; PatientLookup is a component with four useState cells and one    *)
(* asynchronous handler, handleSearch, that awaits the store once.         *)
(* Strings are sequences of one-character strings, so that trim and the    *)
(* ILIKE pattern match are computed character by character.                *)
(***************************************************************************)
EXTENDS Integers, Sequences, FiniteSets

VARIABLES
    \* ---- QueueWidget ----
    userSTN,        \* prop userSTN?: number (Unset when the prop is absent)
    now_serving,    \* queueStatus.now_serving, from the useQueue hook
    loading,        \* loading, from the useQueue hook
    rendered,       \* what the last render of QueueWidget produced
    \* ---- PatientLookup ----
    searchTerm,     \* useState('')
    searchResults,  \* useState([])
    isLoading,      \* useState(false)
    error,          \* useState(null)
    reqs,           \* one entry per request handleSearch sent to the store:
                    \* its term and whether its await is pending, resolved
                    \* with rows ("ok") or resolved with an error ("fail")
    lastEvent       \* the handler continuation that ran last (history)

qvars == <<userSTN, now_serving, loading, rendered>>
lvars == <<searchTerm, searchResults, isLoading, error, reqs, lastEvent>>
vars == <<userSTN, now_serving, loading, rendered,
          searchTerm, searchResults, isLoading, error, reqs, lastEvent>>

\* ------------------------------------------------------------------ bounds
\* Largest token number and now_serving value the model draws.
MaxToken == 9
\* Most requests handleSearch sends to the store in one behaviour.
MaxSearches == 2

(***************************************************************************)
(*                              QueueWidget                                *)
(***************************************************************************)
\* userSTN?: number -- the absent prop (undefined)
Unset == -1

Max(a, b) == IF a >= b THEN a ELSE b

\* JavaScript truthiness of an optional number: undefined and 0 are falsy.
Truthy(n) == n # Unset /\ n # 0

\* line 25, without Math.max
UserPositionNoMax(stn, ns) ==
    IF Truthy(stn) /\ Truthy(ns) THEN stn - ns ELSE 0

\* line 25: userSTN && queueStatus.now_serving ? Math.max(0, userSTN - now_serving) : 0
UserPosition(stn, ns) ==
    IF Truthy(stn) /\ Truthy(ns) THEN Max(0, stn - ns) ELSE 0

\* line 62 with the guard written as "userSTN !== undefined"
ShowProgressDefinedOnly(stn, pos) == stn # Unset

\* line 62: userSTN && userPosition > 0
ShowProgress(stn, pos) == Truthy(stn) /\ pos > 0

\* The width is a rational number of percent, kept exact as num/den (den > 0);
\* nan marks the NaN that 0/0 yields (Math.max and Math.min propagate NaN).
NotEvaluated == [num |-> 0, den |-> 1, nan |-> FALSE, evaluated |-> FALSE]

\* line 71: Math.min(100, Math.max(0, (now_serving / userSTN) * 100))
\* n/0 is Infinity for n > 0 (clamped to 100) and NaN for n = 0.
ProgressWidth(ns, stn) ==
    IF stn = 0
    THEN IF ns = 0
         THEN [num |-> 0, den |-> 1, nan |-> TRUE, evaluated |-> TRUE]
         ELSE [num |-> 100, den |-> 1, nan |-> FALSE, evaluated |-> TRUE]
    ELSE IF ns * 100 < 0
         THEN [num |-> 0, den |-> 1, nan |-> FALSE, evaluated |-> TRUE]
         ELSE IF ns * 100 > 100 * stn
              THEN [num |-> 100, den |-> 1, nan |-> FALSE, evaluated |-> TRUE]
              ELSE [num |-> ns * 100, den |-> stn, nan |-> FALSE, evaluated |-> TRUE]

\* line 77: userSTN && userPosition === 0 && queueStatus.now_serving >= userSTN
ShowTurnAlert(stn, pos, ns) == Truthy(stn) /\ pos = 0 /\ ns >= stn

\* lines 14-23: the loading skeleton
Skeleton ==
    [skeleton |-> TRUE, userPosition |-> 0, showProgress |-> FALSE,
     width |-> NotEvaluated, showTurnAlert |-> FALSE]

\* lines 11-87: one render of the component
Render(stn, ns, ld) ==
    IF ld THEN Skeleton
    ELSE LET pos == UserPosition(stn, ns)
             bar == ShowProgress(stn, pos)
         IN [skeleton |-> FALSE,
             userPosition |-> pos,
             showProgress |-> bar,
             width |-> IF bar THEN ProgressWidth(ns, stn) ELSE NotEvaluated,
             showTurnAlert |-> ShowTurnAlert(stn, pos, ns)]

QueueInit ==
    /\ userSTN = Unset
    /\ now_serving = 0
    /\ loading = TRUE
    /\ rendered = Skeleton

\* The parent passes a new userSTN prop; the component renders again.
SetUserSTN(stn) ==
    /\ userSTN' = stn
    /\ rendered' = Render(stn, now_serving, loading)
    /\ UNCHANGED <<now_serving, loading>>

\* The useQueue hook yields a new { queueStatus, loading }; the component renders again.
UseQueueUpdate(ns, ld) ==
    /\ now_serving' = ns
    /\ loading' = ld
    /\ rendered' = Render(userSTN, ns, ld)
    /\ UNCHANGED userSTN

(***************************************************************************)
(*                             PatientLookup                               *)
(***************************************************************************)
\* What the user can type into the input (line 88): empty, whitespace only,
\* two letters in mixed case, a digit, the LIKE wildcard _ and a term that
\* occurs in no record.
Terms ==
    { <<>>, <<" ", " ">>, <<"a", "N">>, <<"5">>, <<"_">>, <<"q">> }

\* The error messages of lines 21, 60 and 64; Null is the initial null of line 17.
Null == "null"
EmptyTermMsg == "Please enter a search term"
NoMatchMsg == "No patients found matching your search"
FailedMsg == "Failed to search patients. Please try again."

IsSpace(c) == c = " "

RECURSIVE TrimStart(_)
TrimStart(s) ==
    IF s # <<>> /\ IsSpace(Head(s)) THEN TrimStart(Tail(s)) ELSE s

RECURSIVE TrimEnd(_)
TrimEnd(s) ==
    IF s # <<>> /\ IsSpace(s[Len(s)]) THEN TrimEnd(SubSeq(s, 1, Len(s) - 1)) ELSE s

\* String.prototype.trim
Trim(s) == TrimEnd(TrimStart(s))

\* line 20 written without trim: !searchTerm
IsBlankNoTrim(s) == s = <<>>

\* line 20: !searchTerm.trim()
IsBlank(s) == Trim(s) = <<>>

\* ---- the store: the rows the query of lines 30-48 reads ----
\* Three patients. Patient 2 shares the phone of patient 1 and matches the
\* same name query, but has no waiting visit; patient 3 has a completed visit
\* and, after it, a waiting one.
Patients ==
    { [id |-> 1, uid |-> <<"P", "1">>, name |-> <<"A", "n", "n">>,
       phone |-> <<"5", "5">>, created_at |-> 1,
       visits |-> << [id |-> 11, status |-> "waiting", created_at |-> 4] >>],
      [id |-> 2, uid |-> <<"P", "2">>, name |-> <<"N", "a", "n">>,
       phone |-> <<"5", "5">>, created_at |-> 2,
       visits |-> << [id |-> 21, status |-> "in_progress", created_at |-> 6],
                     [id |-> 22, status |-> "completed", created_at |-> 2] >>],
      [id |-> 3, uid |-> <<"P", "3">>, name |-> <<"B", "o">>,
       phone |-> <<"7", "7">>, created_at |-> 3,
       visits |-> << [id |-> 31, status |-> "completed", created_at |-> 3],
                     [id |-> 32, status |-> "waiting", created_at |-> 5] >>] }

\* Case folding of ILIKE, on the letters of the model's records and terms.
Lower(c) ==
    CASE c = "A" -> "a"
      [] c = "B" -> "b"
      [] c = "N" -> "n"
      [] c = "P" -> "p"
      [] OTHER -> c

\* SQL ILIKE: % matches any run of characters, _ any one character, every
\* other character matches itself without regard to case.
RECURSIVE ILike(_, _)
ILike(s, pat) ==
    IF pat = <<>> THEN s = <<>>
    ELSE IF Head(pat) = "%"
         THEN ILike(s, Tail(pat)) \/ (s # <<>> /\ ILike(Tail(s), pat))
         ELSE /\ s # <<>>
              /\ (Head(pat) = "_" \/ Lower(Head(pat)) = Lower(Head(s)))
              /\ ILike(Tail(s), Tail(pat))

\* line 46: .or(`uid.ilike.%${searchTerm}%,phone.ilike.%${searchTerm}%,name.ilike.%${searchTerm}%`)
\* The term is put into the pattern as typed.
OrFilter(p, term) ==
    LET pat == <<"%">> \o term \o <<"%">>
    IN ILike(p.uid, pat) \/ ILike(p.phone, pat) \/ ILike(p.name, pat)

\* lines 34 and 47: visits!inner(...) with .eq('visits.status', 'waiting'):
\* the embedded visits are the waiting ones, in the order the store holds them.
EmbeddedVisits(p) == SelectSeq(p.visits, LAMBDA v : v.status = "waiting")

\* line 48: .order('created_at', { ascending: false }) on the patients
RECURSIVE OrderByCreatedDesc(_)
OrderByCreatedDesc(S) ==
    IF S = {} THEN <<>>
    ELSE LET first == CHOOSE p \in S : \A q \in S : q.created_at <= p.created_at
         IN <<first>> \o OrderByCreatedDesc(S \ {first})

\* lines 30-48: the rows the store returns for a term. The inner join drops
\* the patients left with no embedded visit.
Query(term) ==
    LET hit == { p \in Patients : OrFilter(p, term) /\ EmbeddedVisits(p) # <<>> }
        row(p) == [id |-> p.id, uid |-> p.uid, name |-> p.name, phone |-> p.phone,
                   created_at |-> p.created_at, visits |-> EmbeddedVisits(p)]
        sorted == OrderByCreatedDesc(hit)
    IN [i \in 1..Len(sorted) |-> row(sorted[i])]

\* lines 52-55: patients?.map(patient => ({...patient, currentVisit: patient.visits?.[0]})) || []
\* (the inner join leaves every row at least one visit)
Shape(rows) ==
    [i \in 1..Len(rows) |-> [patient |-> rows[i], currentVisit |-> rows[i].visits[1]]]

Pending == { i \in 1..Len(reqs) : reqs[i].status = "pending" }

LookupInit ==
    /\ searchTerm = <<>>
    /\ searchResults = <<>>
    /\ isLoading = FALSE
    /\ error = Null
    /\ reqs = <<>>
    /\ lastEvent = [kind |-> "none", req |-> 0]

\* line 88: onChange={(e) => setSearchTerm(e.target.value)}
SetSearchTerm(t) ==
    /\ searchTerm' = t
    /\ UNCHANGED <<searchResults, isLoading, error, reqs, lastEvent>>

\* lines 19-48: handleSearch up to its await. With a blank term it sets the
\* error and returns; otherwise it sets isLoading, clears the error and sends
\* the request, whose answer arrives later.
HandleSearchStart ==
    IF IsBlank(searchTerm)
    THEN /\ error' = EmptyTermMsg
         /\ lastEvent' = [kind |-> "blank", req |-> 0]
         /\ UNCHANGED <<searchTerm, searchResults, isLoading, reqs>>
    ELSE /\ Len(reqs) < MaxSearches
         /\ isLoading' = TRUE
         /\ error' = Null
         /\ reqs' = Append(reqs, [term |-> searchTerm, status |-> "pending"])
         /\ lastEvent' = [kind |-> "start", req |-> Len(reqs) + 1]
         /\ UNCHANGED <<searchTerm, searchResults>>

\* lines 92-98: the Search button, disabled while isLoading
ClickSearch ==
    /\ ~isLoading
    /\ HandleSearchStart

\* lines 70-74: Enter in the input calls handleSearch, whatever isLoading is
HandleKeyPress ==
    HandleSearchStart

\* lines 50-61 and 65-67: the await of request r resolves with rows
HandleSearchResolved(r) ==
    /\ r \in Pending
    /\ LET results == Shape(Query(reqs[r].term))
       IN /\ searchResults' = results
          /\ error' = IF Len(results) = 0 THEN NoMatchMsg ELSE error
    /\ isLoading' = FALSE
    /\ reqs' = [reqs EXCEPT ![r].status = "ok"]
    /\ lastEvent' = [kind |-> "ok", req |-> r]
    /\ UNCHANGED searchTerm

\* lines 50 and 62-67: the await of request r yields an error or throws
HandleSearchFailed(r) ==
    /\ r \in Pending
    /\ error' = FailedMsg
    /\ isLoading' = FALSE
    /\ reqs' = [reqs EXCEPT ![r].status = "fail"]
    /\ lastEvent' = [kind |-> "fail", req |-> r]
    /\ UNCHANGED <<searchTerm, searchResults>>

(***************************************************************************)
(*                            Specifications                               *)
(***************************************************************************)
Init == QueueInit /\ LookupInit

\* PatientLookup on its own
Next ==
    \/ \E t \in Terms : SetSearchTerm(t) /\ UNCHANGED qvars
    \/ ClickSearch /\ UNCHANGED qvars
    \/ HandleKeyPress /\ UNCHANGED qvars
    \/ \E r \in 1..MaxSearches : HandleSearchResolved(r) /\ UNCHANGED qvars
    \/ \E r \in 1..MaxSearches : HandleSearchFailed(r) /\ UNCHANGED qvars

Spec == Init /\ [][Next]_vars

\* QueueWidget on its own
QueueNext ==
    \/ \E stn \in {Unset} \cup (0..MaxToken) : SetUserSTN(stn) /\ UNCHANGED lvars
    \/ \E ns \in 0..MaxToken, ld \in BOOLEAN : UseQueueUpdate(ns, ld) /\ UNCHANGED lvars

QueueSpec == Init /\ [][QueueNext]_vars

(***************************************************************************)
(*                         Properties of QueueWidget                       *)
(*                         (checked under QueueSpec)                       *)
(***************************************************************************)
\* C1: for every non-negative caller token and now_serving, the position the
\* widget derives is max(0, userSTN - now_serving) and is never negative;
\* with now_serving = 0 and a positive token that is the token itself.
C1_PositionIsClampedDifference ==
    (~rendered.skeleton /\ userSTN # Unset) =>
        /\ rendered.userPosition = Max(0, userSTN - now_serving)
        /\ rendered.userPosition >= 0

\* C2 as stated: the "It's your turn" alert is shown if and only if userSTN
\* is set and now_serving >= userSTN.
C2_AlertIffSetAndServed ==
    ~rendered.skeleton =>
        (rendered.showTurnAlert <=> (userSTN # Unset /\ now_serving >= userSTN))

\* C2 amended: the alert is shown if and only if userSTN is set to a token
\* other than 0 and now_serving >= userSTN; the userPosition === 0 conjunct
\* never suppresses it.
C2_AlertIffNonZeroTokenServed ==
    ~rendered.skeleton =>
        (rendered.showTurnAlert <=>
            (userSTN # Unset /\ userSTN # 0 /\ now_serving >= userSTN))

\* the alert of a caller whose token has been passed (9 served, token 8)
C2_Witness ==
    /\ ~rendered.skeleton
    /\ rendered.showTurnAlert
    /\ userSTN = 8
    /\ now_serving = 9
    /\ rendered.userPosition = 0

\* a width num/den percent lies in [0, 100], i.e. the ratio in [0, 1]
InUnitInterval(w) ==
    /\ ~w.nan
    /\ w.den > 0
    /\ 0 <= w.num
    /\ w.num <= 100 * w.den

\* C3: whenever the progress ratio now_serving / userSTN is computed it lies
\* in [0, 1], the expression clamps to 1 when now_serving > userSTN, and the
\* division is never evaluated with userSTN = 0 or unset.
C3_ProgressRatioInUnitInterval ==
    /\ rendered.width.evaluated <=> rendered.showProgress
    /\ rendered.width.evaluated =>
          /\ userSTN # Unset
          /\ userSTN # 0
          /\ InUnitInterval(rendered.width)
    /\ \A ns \in 0..MaxToken, stn \in 1..MaxToken :
          /\ InUnitInterval(ProgressWidth(ns, stn))
          /\ ns > stn => ProgressWidth(ns, stn).num = 100 * ProgressWidth(ns, stn).den

\* the progress bar of token 8 while 5 is served: 500/8 percent, ratio 0.625
C3_Witness ==
    /\ rendered.showProgress
    /\ userSTN = 8
    /\ now_serving = 5
    /\ rendered.userPosition = 3
    /\ rendered.width.num = 500
    /\ rendered.width.den = 8

(***************************************************************************)
(*                        Properties of PatientLookup                      *)
(*                           (checked under Spec)                          *)
(***************************************************************************)
AllWhitespace(s) == \A i \in 1..Len(s) : s[i] = " "

\* C4: handleSearch with an empty or whitespace-only searchTerm sets the
\* empty-term error, sends no request to the store and leaves isLoading and
\* searchResults as they were.
C4_BlankTermSendsNoRequest ==
    [][ (AllWhitespace(searchTerm) /\ (ClickSearch \/ HandleKeyPress)) =>
            /\ error' = EmptyTermMsg
            /\ reqs' = reqs
            /\ isLoading' = isLoading
            /\ searchResults' = searchResults ]_vars

\* a whitespace-only term entered and searched while an earlier search's
\* results are shown and another request is in flight
C4_Witness ==
    /\ lastEvent.kind = "blank"
    /\ searchTerm = <<" ", " ">>
    /\ error = EmptyTermMsg
    /\ isLoading
    /\ Pending # {}
    /\ searchResults # <<>>

\* s contains t as a substring, without regard to case
ContainsIgnoringCase(s, t) ==
    \E i \in 1..(Len(s) + 1) :
        /\ i + Len(t) - 1 <= Len(s)
        /\ \A k \in 1..Len(t) : Lower(s[i + k - 1]) = Lower(t[k])

HasWaitingVisit(p) == \E i \in 1..Len(p.visits) : p.visits[i].status = "waiting"

\* C5: after a successful search the results are exactly the patients whose
\* uid, phone or name contains the query as a substring and who have a
\* waiting visit, and every currentVisit is the first visit the store
\* returned for its patient and is waiting.
C5_ResultsAreWaitingSubstringMatches ==
    lastEvent.kind = "ok" =>
        LET term == reqs[lastEvent.req].term
            expected ==
                { p.id : p \in { q \in Patients :
                    /\ \/ ContainsIgnoringCase(q.uid, term)
                       \/ ContainsIgnoringCase(q.phone, term)
                       \/ ContainsIgnoringCase(q.name, term)
                    /\ HasWaitingVisit(q) } }
        IN /\ { searchResults[i].patient.id : i \in 1..Len(searchResults) } = expected
           /\ \A i \in 1..Len(searchResults) :
                 /\ searchResults[i].currentVisit = searchResults[i].patient.visits[1]
                 /\ searchResults[i].currentVisit.status = "waiting"

\* C6: a search with a non-blank term that matches no patient ends with an
\* empty result list and with the error state unset.
C6_NoMatchIsNotAnError ==
    ( /\ lastEvent.kind = "ok"
      /\ Query(reqs[lastEvent.req].term) = <<>>
      /\ \A i \in 1..Len(reqs) : reqs[i].status # "fail" ) =>
        /\ searchResults = <<>>
        /\ error = Null

\* C7: when a request fails, the error state is the search-failed message
\* when that invocation finishes, and it stays so until the next search is
\* started.
C7_FailureStaysSurfaced ==
    [][ /\ (lastEvent'.kind = "fail" /\ lastEvent' # lastEvent) => error' = FailedMsg
        /\ (error = FailedMsg /\ error' # FailedMsg) =>
              (lastEvent' # lastEvent /\ lastEvent'.kind \in {"start", "blank"}) ]_vars

\* C8: once a search has completed, with rows, with none or with a failure,
\* searchResults holds no entry that is not of that search's own result set.
C8_ResultsReplacedWholesale ==
    lastEvent.kind \in {"ok", "fail"} =>
        LET own == IF lastEvent.kind = "ok"
                   THEN Shape(Query(reqs[lastEvent.req].term))
                   ELSE <<>>
        IN \A i \in 1..Len(searchResults) :
              \E j \in 1..Len(own) : own[j] = searchResults[i]

\* C9: when every request has been answered, in whatever order, and no
\* search was started since, searchResults and error are those of the search
\* issued last.
C9_LastRequestWins ==
    (Len(reqs) >= 2 /\ Pending = {} /\ lastEvent.kind \in {"ok", "fail"}) =>
        LET last == reqs[Len(reqs)]
        IN IF last.status = "ok"
           THEN /\ searchResults = Shape(Query(last.term))
                /\ error # FailedMsg
           ELSE error = FailedMsg

\* C10: isLoading is true exactly when at least one request is in flight.
C10_LoadingIffRequestInFlight ==
    isLoading <=> (Pending # {})

====
